---- MODULE Spec2Model ----
(***************************************************************************)
(* A model of substudy's src/video.rs: the extraction scheduler            *)
(* (Video::extract, extract_one, extract_batch), the command encoding      *)
(* (add_args), the streaming audio pipe (Video::open_audio_stream), the    *)
(* probe (Video::new) and the stream queries (audio_track_for, ...).       *)
(*                                                                         *)
(* Times are bounded integers.  An external process is a record the        *)
(* environment moves from "running" to "exited" with an exit status.       *)
(***************************************************************************)
EXTENDS Integers, Sequences, FiniteSets, TLC

\* ------------------------------------------------------------------ bounds

\* Longest input list whose kinds (Image or Audio) are drawn freely.
MaxLen == 5
\* Longest input list of the second family (Audio but for one Image).
MaxLong == 45

\* Most bytes the streaming process writes to its standard output.
MaxBytes == 3
\* Bytes the pipe between the streaming process and the reader holds.
PipeCap == 2
\* Longest stream list (of a probe's output, of a Video).
MaxStreams == 3

\* ------------------------------------------------------------- option type

None == [some |-> FALSE]
Some(x) == [some |-> TRUE, v |-> x]

Min(a, b) == IF a <= b THEN a ELSE b

\* --------------------------------------------------------- command tokens

\* One argument of an external command.  tag "lit": the literal text s;
\* tag "num": the number n as format!("{}", n) prints it; tag "fmt": the
\* prefix s followed by the text t; tag "map": "0:" followed by the stream
\* id n; tag "track": "track=" n "/" m; tag "path": the path named n.
Tok(tag, s, t, n, m) == [tag |-> tag, s |-> s, t |-> t, n |-> n, m |-> m]
Lit(s) == Tok("lit", s, "", 0, 0)
Num(n) == Tok("num", "", "", n, 0)
Fmt(s, t) == Tok("fmt", s, t, 0, 0)
MapArg(sid) == Tok("map", "0:", "", sid, 0)
TrackArg(track, total) == Tok("track", "track=", "", track, total)
PathArg(p) == Tok("path", "", "", p, 0)

\* The path of the video itself (self.path); destination paths are 1, 2, ...
VideoPath == 0

\* ------------------------------------------------------ Id3Metadata, Period

NoMetadata ==
    [genre |-> None, artist |-> None, album |-> None, track_number |-> None,
     track_name |-> None, lyrics |-> None]

Id3Metadata_add_args(self, cmd) ==
    LET a1 == IF self.genre.some
              THEN cmd \o <<Lit("-metadata"), Fmt("genre=", self.genre.v)>>
              ELSE cmd
        a2 == IF self.artist.some
              THEN a1 \o <<Lit("-metadata"), Fmt("artist=", self.artist.v)>>
              ELSE a1
        a3 == IF self.album.some
              THEN a2 \o <<Lit("-metadata"), Fmt("album=", self.album.v)>>
              ELSE a2
        a4 == IF self.track_number.some
              THEN a3 \o <<Lit("-metadata"),
                           TrackArg(self.track_number.v[1], self.track_number.v[2])>>
              ELSE a3
        a5 == IF self.track_name.some
              THEN a4 \o <<Lit("-metadata"), Fmt("title=", self.track_name.v)>>
              ELSE a4
        a6 == IF self.lyrics.some
              THEN a5 \o <<Lit("-metadata"), Fmt("lyrics=", self.lyrics.v)>>
              ELSE a5
    IN  a6

\* crate::time::Period: a span [begin, end] of the video.
Period_begin(period) == period.begin
Period_duration(period) == period.end - period.begin

\* ----------------------------------------------------------- ExtractionSpec

Image(time) == [kind |-> "Image", time |-> time]
Audio(stream, period, metadata) ==
    [kind |-> "Audio", stream |-> stream, period |-> period, metadata |-> metadata]

earliest_time(spec) ==
    IF spec.kind = "Image" THEN spec.time ELSE Period_begin(spec.period)

can_be_batched_all(spec) == TRUE

can_be_batched(spec) ==
    IF spec.kind = "Image" THEN FALSE ELSE TRUE

\* The bounding box of the scale filter.
ScaleWidth == 1024
ScaleHeight == 768

ExtractionSpec_add_args(spec, cmd, time_base) ==
    IF spec.kind = "Image"
    THEN cmd \o <<Lit("-ss"), Num(spec.time - time_base),
                  Lit("-vframes"), Lit("1"),
                  Lit("-filter_complex"),
                  Tok("scale", "scale=iw*min(1\\,min({}/iw\\,{}/ih)):-1", "",
                      ScaleWidth, ScaleHeight),
                  Lit("-f"), Lit("image2")>>
    ELSE LET a1 == IF spec.stream.some
                   THEN cmd \o <<Lit("-map"), MapArg(spec.stream.v)>>
                   ELSE cmd
             a2 == Id3Metadata_add_args(spec.metadata, a1)
         IN  a2 \o <<Lit("-ss"), Num(Period_begin(spec.period) - time_base),
                     Lit("-t"), Num(Period_duration(spec.period))>>

\* ---------------------------------------------------------------- Extraction

Extraction(path, spec) == [path |-> path, spec |-> spec]

\* The destination path ahead of the arguments of the spec.
Extraction_add_args_path_first(self, cmd, time_base) ==
    ExtractionSpec_add_args(self.spec, cmd \o <<PathArg(self.path)>>, time_base)

Extraction_add_args(self, cmd, time_base) ==
    ExtractionSpec_add_args(self.spec, cmd, time_base) \o <<PathArg(self.path)>>

\* ------------------------------------------------------------------- state

VARIABLES
    \* Video::extract
    extractions,    \* the input list: a sequence of Extraction
    pc,             \* where extract is: "walk", "await_one", "await_batch", "done"
    i,              \* the item the first loop is at (1 .. Len + 1)
    batch,          \* Vec<&Extraction>: positions of the batchable items so far
    chunk_no,       \* chunks of batch.chunks(20) the second loop has finished
    passes,         \* every pass extract has tried to start, in order, with its process
    pb,             \* the progress bar's position
    pb_len,         \* the progress bar's length
    finished,       \* ui.finish has run
    result,         \* what extract returned: "none" (running), "Ok", "Err", "Panic"
    \* Video::open_audio_stream
    s_in,           \* the call's inputs: stream, rate, the target's endianness
    s_pc,           \* "call", "open" (the pair was returned), "failed" (spawn failed)
    s_cmd,          \* the command spawned
    child,          \* the process: "none", "running", "exited"; status; bytes left to write
    pipe,           \* bytes written by the process and not yet read
    reader,         \* the BufReader: bytes read, end-of-stream seen
    join,           \* the completion signal: "none", "pending", "awaiting", or how it resolved
    reaped,         \* child.wait() has returned the exit status
    \* Video::new
    n_in,           \* the path: is it a regular file
    n_pc,           \* "call", "probing", "done"
    probe,          \* the ffprobe process: invoked, state, status, stdout
    n_result,       \* "none", "NotAFile", "ProbeFailed", "Ok"
    video,          \* the Video returned: its stream list
    \* the queries on a Video
    q_streams,      \* self.metadata.streams
    q_lang,         \* the language asked for
    q_pc,           \* "ready", "done"
    q_track,        \* what audio_track_for returned
    q_image,        \* what image_source_type returned
    \* the command of one pass
    c_mode,         \* "one" (extract_one) or "batch" (extract_batch)
    c_items,        \* the items of the pass
    c_pc,           \* "ready", "done"
    c_cmd,          \* the command built
    \* Fraction::deserialize
    f_text,         \* the text, a sequence of characters
    f_pc,           \* "ready", "done"
    f_out           \* the outcome

evars == <<extractions, pc, i, batch, chunk_no, passes, pb, pb_len, finished, result>>
svars == <<s_in, s_pc, s_cmd, child, pipe, reader, join, reaped>>
nvars == <<n_in, n_pc, probe, n_result, video>>
qvars == <<q_streams, q_lang, q_pc, q_track, q_image>>

cvars == <<c_mode, c_items, c_pc, c_cmd>>
fvars == <<f_text, f_pc, f_out>>

vars == <<evars, svars, nvars, qvars, cvars, fvars>>

\* The exit statuses of an external process: zero and a non-zero one.
ExitStatuses == {0, 1}
NoStatus == -1

\* Each part of the program at rest, for the specifications of the others.
IdleExtract ==
    /\ extractions = <<>> /\ pc = "idle" /\ i = 1 /\ batch = <<>> /\ chunk_no = 0
    /\ passes = <<>> /\ pb = 0 /\ pb_len = 0 /\ finished = FALSE /\ result = "none"

IdleStream ==
    /\ s_in = [stream |-> None, rate |-> 0, big_endian |-> FALSE]
    /\ s_pc = "idle" /\ s_cmd = <<>>
    /\ child = [state |-> "none", status |-> NoStatus, to_write |-> 0]
    /\ pipe = 0 /\ reader = [nread |-> 0, eof |-> FALSE]
    /\ join = "none" /\ reaped = FALSE

IdleNew ==
    /\ n_in = [is_file |-> FALSE] /\ n_pc = "idle"
    /\ probe = [invoked |-> FALSE, state |-> "none", status |-> NoStatus]
    /\ n_result = "none" /\ video = <<>>

IdleQuery ==
    /\ q_streams = <<>> /\ q_lang = "" /\ q_pc = "idle" /\ q_track = None
    /\ q_image = None

IdleEncode ==
    /\ c_mode = "none" /\ c_items = <<>> /\ c_pc = "idle" /\ c_cmd = <<>>

IdleFraction ==
    /\ f_text = <<>> /\ f_pc = "idle" /\ f_out = [kind |-> "none"]

\* ----------------------------------------------------------- the input lists

Tagged ==
    [genre |-> Some("g"), artist |-> None, album |-> Some("a"),
     track_number |-> Some(<<1, 2>>), track_name |-> None, lyrics |-> None]

\* An audio clip of one time unit starting at t; odd starts ask for stream 1
\* and carry tags.
AudioClip(t) ==
    Audio(IF t % 2 = 1 THEN Some(1) ELSE None,
          [begin |-> t, end |-> t + 1],
          IF t % 2 = 1 THEN Tagged ELSE NoMetadata)

\* Item j of a list writes to path j.
WithPaths(specs) == [j \in 1..Len(specs) |-> Extraction(j, specs[j])]

\* How the times of a list run: ascending (sorted), descending (unsorted) or
\* all equal (sorted).
TimeOrders == {"asc", "desc", "flat"}

TimeAt(order, n, j) ==
    IF order = "asc" THEN j ELSE IF order = "desc" THEN n - j ELSE 0

\* The list with the given kinds, in the given time order.
ListOf(kinds, order) ==
    WithPaths([j \in 1..Len(kinds) |->
        LET t == TimeAt(order, Len(kinds), j)
        IN  IF kinds[j] = "Image" THEN Image(t) ELSE AudioClip(t)])

\* Every list of at most MaxLen items, of any kinds, sorted or not.
SmallLists ==
    UNION {{ListOf(kinds, order) : kinds \in [1..n -> {"Image", "Audio"}],
                                   order \in TimeOrders} : n \in 0..MaxLen}

\* Lists of n items, Audio but for an Image at position p (p = 0: none).
LongList(n, p, order) ==
    ListOf([j \in 1..n |-> IF j = p THEN "Image" ELSE "Audio"], order)

LongLists ==
    {LongList(n, p, order) : n \in (MaxLen + 1)..MaxLong, p \in {0, 2},
                             order \in TimeOrders}

Inputs == SmallLists \cup LongLists

\* ------------------------------------------------------------ Video::extract

\* The size of a batch chunk: batch.chunks(20).
ChunkSize == 20

\* slice::chunks with a remainder dropped (chunks_exact).
chunks_exact(s, n) ==
    [c \in 1..(Len(s) \div n) |-> SubSeq(s, (c - 1) * n + 1, c * n)]

\* slice::chunks(n): consecutive chunks of n items, the last one shorter when
\* the length is no multiple of n; no chunk of an empty slice.
chunks(s, n) ==
    [c \in 1..((Len(s) + n - 1) \div n) |->
        SubSeq(s, (c - 1) * n + 1, Min(c * n, Len(s)))]

extract_command(time_base) ==
    [program |-> "ffmpeg",
     args |-> <<Lit("-ss"), Num(time_base), Lit("-i"), PathArg(VideoPath)>>]

RECURSIVE FlattenRange(_, _, _)
\* ss[lo] \o ... \o ss[hi], halving the range.
FlattenRange(ss, lo, hi) ==
    IF lo > hi THEN <<>>
    ELSE IF lo = hi THEN ss[lo]
    ELSE LET mid == (lo + hi) \div 2
         IN  FlattenRange(ss, lo, mid) \o FlattenRange(ss, mid + 1, hi)

\* for e in extractions { e.add_args(&mut cmd, time_base) }: add_args only
\* appends to cmd, so the loop appends every item's arguments in item order.
add_all(es, args, time_base) ==
    args \o FlattenRange([j \in 1..Len(es) |->
                            Extraction_add_args(es[j], <<>>, time_base)],
                         1, Len(es))

\* The command extract_one runs for one extraction.
extract_one_cmd(extraction) ==
    LET time_base == earliest_time(extraction.spec)
        cmd == extract_command(time_base)
    IN  [cmd EXCEPT !.args = Extraction_add_args(extraction, @, time_base)]

extract_batch_cmd_last(es) ==
    LET time_base == earliest_time(es[Len(es)].spec)
        cmd == extract_command(time_base)
    IN  [cmd EXCEPT !.args = add_all(es, @, time_base)]

\* The command extract_batch runs for a chunk that is not empty.
extract_batch_cmd(es) ==
    LET time_base == earliest_time(es[1].spec)
        cmd == extract_command(time_base)
    IN  [cmd EXCEPT !.args = add_all(es, @, time_base)]

\* assert!(e.spec.can_be_batched()) for every e of the chunk.
batch_assert(es) == \A j \in 1..Len(es) : can_be_batched(es[j].spec)

Pass(kind, items, cmd, proc) ==
    [kind |-> kind, items |-> items, cmd |-> cmd, proc |-> proc,
     status |-> NoStatus, returned |-> FALSE]

Refs(items) == [j \in 1..Len(items) |-> extractions[items[j]]]

Chunks == chunks(batch, ChunkSize)

InitExtract ==
    /\ extractions \in Inputs
    /\ pc = "walk"
    /\ i = 1
    /\ batch = <<>>
    /\ chunk_no = 0
    /\ passes = <<>>
    /\ pb = 0
    /\ pb_len = Len(extractions)
    /\ finished = FALSE
    /\ result = "none"
    /\ IdleStream /\ IdleNew /\ IdleQuery /\ IdleEncode /\ IdleFraction

\* Every item is pushed on the batch, batchable or not.
extract_push_any ==
    /\ pc = "walk" /\ i <= Len(extractions)
    /\ batch' = Append(batch, i)
    /\ i' = i + 1
    /\ UNCHANGED <<extractions, pc, chunk_no, passes, pb, pb_len, finished, result>>
    /\ UNCHANGED <<svars, nvars, qvars, cvars, fvars>>

\* if e.spec.can_be_batched() { batch.push(e) }
extract_push ==
    /\ pc = "walk" /\ i <= Len(extractions)
    /\ can_be_batched(extractions[i].spec)
    /\ batch' = Append(batch, i)
    /\ i' = i + 1
    /\ UNCHANGED <<extractions, pc, chunk_no, passes, pb, pb_len, finished, result>>
    /\ UNCHANGED <<svars, nvars, qvars, cvars, fvars>>

\* else { self.extract_one(e) ...: cmd.output() spawns the process
extract_one_spawn ==
    /\ pc = "walk" /\ i <= Len(extractions)
    /\ ~can_be_batched(extractions[i].spec)
    /\ passes' = Append(passes,
                        Pass("single", <<i>>, extract_one_cmd(extractions[i]), "running"))
    /\ pc' = "await_one"
    /\ UNCHANGED <<extractions, i, batch, chunk_no, pb, pb_len, finished, result>>
    /\ UNCHANGED <<svars, nvars, qvars, cvars, fvars>>

\* A spawn failure swallowed: the loop goes on as after a pass.
extract_one_spawn_fail_ignored ==
    /\ pc = "walk" /\ i <= Len(extractions)
    /\ ~can_be_batched(extractions[i].spec)
    /\ passes' = Append(passes,
                        Pass("single", <<i>>, extract_one_cmd(extractions[i]), "spawn_failed"))
    /\ i' = i + 1
    /\ pb' = pb + 1
    /\ UNCHANGED <<extractions, pc, batch, chunk_no, pb_len, finished, result>>
    /\ UNCHANGED <<svars, nvars, qvars, cvars, fvars>>

\* cmd.output() fails to spawn: .with_context(..)? returns the error from
\* extract_one, and the ? in extract returns it from extract.
extract_one_spawn_fail ==
    /\ pc = "walk" /\ i <= Len(extractions)
    /\ ~can_be_batched(extractions[i].spec)
    /\ passes' = Append(passes,
                        Pass("single", <<i>>, extract_one_cmd(extractions[i]), "spawn_failed"))
    /\ pc' = "done"
    /\ result' = "Err"
    /\ UNCHANGED <<extractions, i, batch, chunk_no, pb, pb_len, finished>>
    /\ UNCHANGED <<svars, nvars, qvars, cvars, fvars>>

\* The environment: a running process exits with some status.
process_exit ==
    \E p \in DOMAIN passes, st \in ExitStatuses :
        /\ passes[p].proc = "running"
        /\ passes' = [passes EXCEPT ![p].proc = "exited", ![p].status = st]
        /\ UNCHANGED <<extractions, pc, i, batch, chunk_no, pb, pb_len, finished, result>>
        /\ UNCHANGED <<svars, nvars, qvars, cvars, fvars>>

\* The pass is not awaited (spawn() in place of output().await).
extract_one_return_early ==
    /\ pc = "await_one"
    /\ passes' = [passes EXCEPT ![Len(passes)].returned = TRUE]
    /\ pb' = pb + 1
    /\ i' = i + 1
    /\ pc' = "walk"
    /\ UNCHANGED <<extractions, batch, chunk_no, pb_len, finished, result>>
    /\ UNCHANGED <<svars, nvars, qvars, cvars, fvars>>

\* cmd.output().await resolves once the process has exited; its Output (and
\* the exit status in it) is dropped, extract_one returns Ok(()); pb.inc(1).
extract_one_return ==
    /\ pc = "await_one"
    /\ passes[Len(passes)].proc = "exited"
    /\ passes' = [passes EXCEPT ![Len(passes)].returned = TRUE]
    /\ pb' = pb + 1
    /\ i' = i + 1
    /\ pc' = "walk"
    /\ UNCHANGED <<extractions, batch, chunk_no, pb_len, finished, result>>
    /\ UNCHANGED <<svars, nvars, qvars, cvars, fvars>>

\* for chunk in batch.chunks(20) { self.extract_batch(chunk) ...: an empty
\* chunk returns Ok(()) at once, a failed assert! panics, else the process
\* is spawned.
extract_batch_spawn ==
    /\ pc = "walk" /\ i = Len(extractions) + 1
    /\ chunk_no < Len(Chunks)
    /\ LET chunk == Chunks[chunk_no + 1]
       IN  IF chunk = <<>>
           THEN /\ pb' = pb + Len(chunk)
                /\ chunk_no' = chunk_no + 1
                /\ UNCHANGED <<pc, passes, result>>
           ELSE IF ~batch_assert(Refs(chunk))
           THEN /\ pc' = "done"
                /\ result' = "Panic"
                /\ UNCHANGED <<passes, pb, chunk_no>>
           ELSE /\ passes' = Append(passes,
                        Pass("batch", chunk, extract_batch_cmd(Refs(chunk)), "running"))
                /\ pc' = "await_batch"
                /\ UNCHANGED <<pb, chunk_no, result>>
    /\ UNCHANGED <<extractions, i, batch, pb_len, finished>>
    /\ UNCHANGED <<svars, nvars, qvars, cvars, fvars>>

extract_batch_spawn_fail ==
    /\ pc = "walk" /\ i = Len(extractions) + 1
    /\ chunk_no < Len(Chunks)
    /\ LET chunk == Chunks[chunk_no + 1]
       IN  /\ chunk # <<>>
           /\ batch_assert(Refs(chunk))
           /\ passes' = Append(passes,
                        Pass("batch", chunk, extract_batch_cmd(Refs(chunk)), "spawn_failed"))
    /\ pc' = "done"
    /\ result' = "Err"
    /\ UNCHANGED <<extractions, i, batch, chunk_no, pb, pb_len, finished>>
    /\ UNCHANGED <<svars, nvars, qvars, cvars, fvars>>

\* The batch pass counted as one item.
extract_batch_return_inc1 ==
    /\ pc = "await_batch"
    /\ passes[Len(passes)].proc = "exited"
    /\ passes' = [passes EXCEPT ![Len(passes)].returned = TRUE]
    /\ pb' = pb + 1
    /\ chunk_no' = chunk_no + 1
    /\ pc' = "walk"
    /\ UNCHANGED <<extractions, i, batch, pb_len, finished, result>>
    /\ UNCHANGED <<svars, nvars, qvars, cvars, fvars>>

\* cmd.output().await resolves, extract_batch returns Ok(());
\* pb.inc(chunk.len()).
extract_batch_return ==
    /\ pc = "await_batch"
    /\ passes[Len(passes)].proc = "exited"
    /\ passes' = [passes EXCEPT ![Len(passes)].returned = TRUE]
    /\ pb' = pb + Len(passes[Len(passes)].items)
    /\ chunk_no' = chunk_no + 1
    /\ pc' = "walk"
    /\ UNCHANGED <<extractions, i, batch, pb_len, finished, result>>
    /\ UNCHANGED <<svars, nvars, qvars, cvars, fvars>>

\* ui.finish(&prog_conf, pb); Ok(())
extract_finish ==
    /\ pc = "walk" /\ i = Len(extractions) + 1
    /\ chunk_no = Len(Chunks)
    /\ finished' = TRUE
    /\ result' = "Ok"
    /\ pc' = "done"
    /\ UNCHANGED <<extractions, i, batch, chunk_no, passes, pb, pb_len>>
    /\ UNCHANGED <<svars, nvars, qvars, cvars, fvars>>

Next ==
    \/ extract_push
    \/ extract_one_spawn
    \/ extract_one_spawn_fail
    \/ process_exit
    \/ extract_one_return
    \/ extract_batch_spawn
    \/ extract_batch_spawn_fail
    \/ extract_batch_return
    \/ extract_finish

Init == InitExtract

Spec == Init /\ [][Next]_vars

\* ------------------------------------------------- helpers of the properties

RECURSIVE SumItems(_)
\* The number of extractions in the passes whose call has returned.
SumItems(ps) ==
    IF ps = <<>> THEN 0
    ELSE (IF Head(ps).returned THEN Len(Head(ps).items) ELSE 0) + SumItems(Tail(ps))

RECURSIVE Concat(_)
Concat(ss) == IF ss = <<>> THEN <<>> ELSE Head(ss) \o Concat(Tail(ss))

IsPrefix(s, t) == Len(s) <= Len(t) /\ SubSeq(t, 1, Len(s)) = s

Positions == 1..Len(extractions)
KindAt(j) == extractions[j].spec.kind
ImagePositions == SelectSeq([j \in Positions |-> j], LAMBDA j : KindAt(j) = "Image")
AudioPositions == SelectSeq([j \in Positions |-> j], LAMBDA j : KindAt(j) = "Audio")

PassesOfKind(kind) == SelectSeq(passes, LAMBDA ps : ps.kind = kind)
ItemsOf(ps) == [p \in 1..Len(ps) |-> ps[p].items]

\* The (pass, place) pairs at which position j is issued.
IssuedAt(j) ==
    UNION {{<<p, x>> : x \in {y \in DOMAIN passes[p].items : passes[p].items[y] = j}} :
            p \in DOMAIN passes}

CeilDiv(a, b) == (a + b - 1) \div b

Sorted ==
    \A a, b \in Positions :
        a < b => earliest_time(extractions[a].spec) <= earliest_time(extractions[b].spec)

\* The numbers that follow the "-ss" arguments of a command after the shared
\* seek: the relative seek offset of each item, in command order.
ItemOffsets(args) ==
    LET at == SelectSeq([x \in 1..Len(args) |-> x],
                        LAMBDA x : x > 2 /\ x < Len(args) /\ args[x] = Lit("-ss"))
    IN  [x \in 1..Len(at) |-> args[at[x] + 1].n]

\* The shared seek of a command: the number after its leading "-ss".
TimeBase(cmd) == cmd.args[2].n

\* --------------------------------------------------------------- the claims

\* C1: if the process of any pass exits with a non-zero status, extract
\* returns a failure and starts no later pass.
C1_NonZeroExitAborts ==
    \A p \in DOMAIN passes :
        (passes[p].proc = "exited" /\ passes[p].status # 0)
            => /\ p = Len(passes)
               /\ result # "Ok"
               /\ pc # "walk"

\* C2: if spawning the process of a pass fails, extract returns the failure at
\* once: the failed pass is the last one tried, the progress counter counts
\* only the passes before it, the progress bar is not finished, and the passes
\* before it stay completed and are not tried again.
C2_SpawnFailureAborts ==
    \A p \in DOMAIN passes :
        passes[p].proc = "spawn_failed"
            => /\ p = Len(passes)
               /\ pc = "done" /\ result = "Err"
               /\ ~finished
               /\ ~passes[p].returned
               /\ pb = SumItems(SubSeq(passes, 1, p - 1))
               /\ \A q \in 1..(p - 1) :
                    /\ passes[q].proc = "exited" /\ passes[q].returned
                    /\ \A r \in DOMAIN passes : r # q => passes[r].items # passes[q].items

\* C2 witness: the second pass failed to spawn after a completed first pass,
\* with items still to come.
C2_Witness ==
    /\ Len(passes) = 2
    /\ passes[2].proc = "spawn_failed"
    /\ passes[1].returned
    /\ i < Len(extractions)

\* C3: the passes run one after another: singles in input order, then batch
\* chunks in chunk order; at most one process is alive, and every pass but
\* the last one started has exited.
C3_StrictlySequential ==
    /\ Cardinality({p \in DOMAIN passes : passes[p].proc = "running"}) <= 1
    /\ \A p \in DOMAIN passes : p < Len(passes) => passes[p].proc = "exited"
    /\ \A p, q \in DOMAIN passes :
        p < q =>
            /\ passes[p].kind = "batch" => passes[q].kind = "batch"
            /\ passes[p].items[Len(passes[p].items)] < passes[q].items[1]
                \/ (passes[p].kind = "single" /\ passes[q].kind = "batch")
    /\ IsPrefix(Concat(ItemsOf(PassesOfKind("single"))), ImagePositions)
    /\ IsPrefix(Concat(ItemsOf(PassesOfKind("batch"))), AudioPositions)
    /\ PassesOfKind("batch") # <<>>
        => Concat(ItemsOf(PassesOfKind("single"))) = ImagePositions

\* C3 witness: a batch pass is running after two single passes, the second
\* of them for an item that comes after a batchable one.
C3_Witness ==
    /\ Len(passes) = 3
    /\ passes[1].kind = "single" /\ passes[2].kind = "single"
    /\ passes[3].kind = "batch" /\ passes[3].proc = "running"
    /\ passes[3].items[1] < passes[2].items[1]

\* C4: when extract returns Ok, every extraction is in exactly one pass: an
\* Image alone in a single pass, an Audio in a batch pass of Audio items only;
\* no pass is empty; [Image, Audio, Audio, Image] gives two single passes and
\* one batch pass with both Audio items.
C4_EachItemInOnePass ==
    result = "Ok" =>
        /\ \A j \in Positions :
            /\ Cardinality(IssuedAt(j)) = 1
            /\ \A px \in IssuedAt(j) :
                IF KindAt(j) = "Image"
                THEN passes[px[1]].kind = "single" /\ passes[px[1]].items = <<j>>
                ELSE /\ passes[px[1]].kind = "batch"
                     /\ \A x \in DOMAIN passes[px[1]].items :
                            KindAt(passes[px[1]].items[x]) = "Audio"
        /\ \A p \in DOMAIN passes : passes[p].items # <<>>
        /\ [j \in Positions |-> KindAt(j)] = <<"Image", "Audio", "Audio", "Image">>
            => /\ ItemsOf(PassesOfKind("single")) = << <<1>>, <<4>> >>
               /\ ItemsOf(PassesOfKind("batch")) = << <<2, 3>> >>

\* C4 witness: extract returned Ok on [Image, Audio, Audio, Image].
C4_Witness ==
    /\ result = "Ok"
    /\ [j \in Positions |-> KindAt(j)] = <<"Image", "Audio", "Audio", "Image">>
    /\ Len(passes) = 3

\* C5: N batchable extractions give ceil(N / 20) batch passes, each of at
\* most 20 items and each but the last of exactly 20, and the passes' items
\* in pass order are the batchable items in their original order.
C5_ChunksOfTwenty ==
    LET bs == ItemsOf(PassesOfKind("batch"))
    IN  /\ \A c \in DOMAIN bs :
            /\ Len(bs[c]) <= ChunkSize
            /\ c < Len(bs) => Len(bs[c]) = ChunkSize
        /\ IsPrefix(Concat(bs), AudioPositions)
        /\ result = "Ok" =>
            /\ Len(bs) = CeilDiv(Len(AudioPositions), ChunkSize)
            /\ Concat(bs) = AudioPositions

\* C5 witness: 45 batchable extractions went out in passes of 20, 20 and 5.
C5_Witness ==
    LET bs == ItemsOf(PassesOfKind("batch"))
    IN  /\ result = "Ok"
        /\ Len(AudioPositions) = 2 * ChunkSize + 5
        /\ [c \in DOMAIN bs |-> Len(bs[c])] = <<ChunkSize, ChunkSize, 5>>

\* C6: the shared seek of every pass is earliest_time of its first item; a
\* single pass encodes its item with offset 0, a batch pass encodes every
\* item with earliest_time(item) - time base; on a sorted input list the time
\* base is the least earliest_time of the pass and no offset is negative.
C6_TimeBaseIsFirstItem ==
    \A p \in DOMAIN passes :
        LET ps == passes[p]
            offs == ItemOffsets(ps.cmd.args)
            et(x) == earliest_time(extractions[ps.items[x]].spec)
        IN  /\ ps.cmd.args[1] = Lit("-ss")
            /\ TimeBase(ps.cmd) = et(1)
            /\ Len(offs) = Len(ps.items)
            /\ \A x \in DOMAIN ps.items : offs[x] = et(x) - TimeBase(ps.cmd)
            /\ ps.kind = "single" => offs = <<0>>
            /\ Sorted => \A x \in DOMAIN ps.items :
                            TimeBase(ps.cmd) <= et(x) /\ offs[x] >= 0

\* C6 witness: a batch pass of a sorted list whose last item is encoded with
\* a positive offset.
C6_Witness ==
    /\ Sorted
    /\ \E p \in DOMAIN passes :
        /\ passes[p].kind = "batch"
        /\ Len(passes[p].items) >= 2
        /\ ItemOffsets(passes[p].cmd.args)[Len(passes[p].items)] > 0

\* The passes extract issues on a list when every spawn works: a function of
\* the list alone.
Schedule ==
    [x \in 1..Len(ImagePositions) |-> <<ImagePositions[x]>>]
        \o chunks(AudioPositions, ChunkSize)

\* C7: the progress counter is the number of extractions in the passes that
\* have returned; a pass returns only after its process has exited; the
\* counter never exceeds the list's length and equals it when extract returns
\* Ok; the passes issued are those of the list's schedule, which no counter
\* value changes.
C7_ProgressCountsCompleted ==
    /\ pb = SumItems(passes)
    /\ \A p \in DOMAIN passes : passes[p].returned => passes[p].proc = "exited"
    /\ pb <= pb_len /\ pb_len = Len(extractions)
    /\ result = "Ok" => pb = Len(extractions) /\ finished
    /\ IsPrefix(ItemsOf(passes), Schedule)

\* C7 witness: a batch pass of several items has returned after a single
\* pass, and the counter stands at their sum.
C7_Witness ==
    /\ Len(passes) = 2
    /\ passes[1].kind = "single" /\ passes[1].returned
    /\ passes[2].kind = "batch" /\ passes[2].returned
    /\ Len(passes[2].items) >= 2
    /\ pb = 1 + Len(passes[2].items)

\* C15: the assertion of extract_batch holds in every call extract makes,
\* for every input list: no pass of extract_batch holds an item that cannot
\* be batched, no pass of extract_one an item that can, and the batch
\* collects batchable items only.
C15_BatchAssertHolds ==
    /\ result # "Panic"
    /\ \A j \in DOMAIN batch : can_be_batched(extractions[batch[j]].spec)
    /\ \A p \in DOMAIN passes :
        \A j \in DOMAIN passes[p].items :
            (passes[p].kind = "batch")
                <=> can_be_batched(extractions[passes[p].items[j]].spec)

\* C15 witness: extract_batch was called for a list that is not sorted and
\* has an Image between Audio items, after extract_one was called for the
\* Image.
C15_Witness ==
    /\ Len(extractions) >= 3
    /\ KindAt(1) = "Audio" /\ KindAt(2) = "Image" /\ KindAt(3) = "Audio"
    /\ earliest_time(extractions[3].spec) < earliest_time(extractions[1].spec)
    /\ Len(passes) = 2
    /\ passes[1].kind = "single" /\ passes[1].items = <<2>>
    /\ passes[2].kind = "batch" /\ passes[2].items[1] = 1 /\ passes[2].items[2] = 3

\* ------------------------------------------------- Video::open_audio_stream

\* The stream selectors and sample rates a call is made with.
StreamSelectors == {None, Some(0), Some(1)}
Rates == {8000, 16000}

\* if cfg!(target_endian = "big") { "s16be" } else { "s16le" }
encoding(big_endian) == IF big_endian THEN "s16be" ELSE "s16le"

\* The command of open_audio_stream.
audio_stream_cmd(stream, rate, big_endian) ==
    [program |-> "ffmpeg",
     args |-> <<Lit("-v"), Lit("quiet"), Lit("-i"), PathArg(VideoPath)>>
              \o (IF stream.some THEN <<Lit("-map"), MapArg(stream.v)>> ELSE <<>>)
              \o <<Lit("-acodec"), Fmt("pcm_", encoding(big_endian)),
                   Lit("-f"), Lit(encoding(big_endian)),
                   Lit("-ac"), Lit("1"),
                   Lit("-ar"), Num(rate),
                   Lit("-")>>]

\* ExitStatus::success
status_success(status) == status = 0

InitStream ==
    /\ s_in \in [stream : StreamSelectors, rate : Rates, big_endian : BOOLEAN]
    /\ s_pc = "call"
    /\ s_cmd = <<>>
    /\ child = [state |-> "none", status |-> NoStatus, to_write |-> 0]
    /\ pipe = 0
    /\ reader = [nread |-> 0, eof |-> FALSE]
    /\ join = "none"
    /\ reaped = FALSE
    /\ IdleExtract /\ IdleNew /\ IdleQuery /\ IdleEncode /\ IdleFraction

\* cmd.stdout(Stdio::piped()).spawn() works: the process runs, with some
\* number of bytes to write; the reader and the completion future are returned.
open_audio_stream_spawn ==
    /\ s_pc = "call"
    /\ \E total \in 0..MaxBytes :
        child' = [state |-> "running", status |-> NoStatus, to_write |-> total]
    /\ s_cmd' = audio_stream_cmd(s_in.stream, s_in.rate, s_in.big_endian)
    /\ join' = "pending"
    /\ s_pc' = "open"
    /\ UNCHANGED <<s_in, pipe, reader, reaped>>
    /\ UNCHANGED <<evars, nvars, qvars, cvars, fvars>>

\* spawn() fails: .with_context(..)? returns the error; no pair is returned.
open_audio_stream_spawn_fail ==
    /\ s_pc = "call"
    /\ s_cmd' = audio_stream_cmd(s_in.stream, s_in.rate, s_in.big_endian)
    /\ s_pc' = "failed"
    /\ UNCHANGED <<s_in, child, pipe, reader, join, reaped>>
    /\ UNCHANGED <<evars, nvars, qvars, cvars, fvars>>

\* The environment: the process writes a byte to its standard output, when
\* the pipe has room.
child_write ==
    /\ child.state = "running" /\ child.to_write > 0
    /\ pipe < PipeCap
    /\ pipe' = pipe + 1
    /\ child' = [child EXCEPT !.to_write = @ - 1]
    /\ UNCHANGED <<s_in, s_pc, s_cmd, reader, join, reaped>>
    /\ UNCHANGED <<evars, nvars, qvars, cvars, fvars>>

\* The environment: the process has written all its output and exits.
child_finish ==
    /\ child.state = "running" /\ child.to_write = 0
    /\ \E st \in ExitStatuses : child' = [child EXCEPT !.state = "exited", !.status = st]
    /\ UNCHANGED <<s_in, s_pc, s_cmd, pipe, reader, join, reaped>>
    /\ UNCHANGED <<evars, nvars, qvars, cvars, fvars>>

\* The environment: the process dies before it has written all its output.
child_crash ==
    /\ child.state = "running" /\ child.to_write > 0
    /\ \E st \in ExitStatuses \ {0} :
        child' = [child EXCEPT !.state = "exited", !.status = st]
    /\ UNCHANGED <<s_in, s_pc, s_cmd, pipe, reader, join, reaped>>
    /\ UNCHANGED <<evars, nvars, qvars, cvars, fvars>>

\* The consumer reads a byte from the BufReader.
stream_read ==
    /\ s_pc = "open" /\ ~reader.eof
    /\ pipe > 0
    /\ pipe' = pipe - 1
    /\ reader' = [reader EXCEPT !.nread = @ + 1]
    /\ UNCHANGED <<s_in, s_pc, s_cmd, child, join, reaped>>
    /\ UNCHANGED <<evars, nvars, qvars, cvars, fvars>>

\* End-of-stream shows only once the process has been waited on.
stream_read_eof_after_wait ==
    /\ s_pc = "open" /\ ~reader.eof
    /\ pipe = 0 /\ child.state = "exited" /\ reaped
    /\ reader' = [reader EXCEPT !.eof = TRUE]
    /\ UNCHANGED <<s_in, s_pc, s_cmd, child, pipe, join, reaped>>
    /\ UNCHANGED <<evars, nvars, qvars, cvars, fvars>>

\* The consumer reads end-of-stream: the pipe is empty and its write end is
\* closed (the process has exited).
stream_read_eof ==
    /\ s_pc = "open" /\ ~reader.eof
    /\ pipe = 0 /\ child.state = "exited"
    /\ reader' = [reader EXCEPT !.eof = TRUE]
    /\ UNCHANGED <<s_in, s_pc, s_cmd, child, pipe, join, reaped>>
    /\ UNCHANGED <<evars, nvars, qvars, cvars, fvars>>

\* The consumer starts awaiting join_handle.
join_await ==
    /\ join = "pending"
    /\ join' = "awaiting"
    /\ UNCHANGED <<s_in, s_pc, s_cmd, child, pipe, reader, reaped>>
    /\ UNCHANGED <<evars, nvars, qvars, cvars, fvars>>

\* The exit status is not looked at.
join_resolve_unchecked ==
    /\ join = "awaiting"
    /\ child.state = "exited"
    /\ reaped' = TRUE
    /\ join' = "Ok"
    /\ UNCHANGED <<s_in, s_pc, s_cmd, child, pipe, reader>>
    /\ UNCHANGED <<evars, nvars, qvars, cvars, fvars>>

\* child.wait().await returns the status once the process has exited;
\* if !status.success() { Err(RunCommandError) } else { Ok(()) }
join_resolve ==
    /\ join = "awaiting"
    /\ child.state = "exited"
    /\ reaped' = TRUE
    /\ join' = IF ~status_success(child.status) THEN "ExtractionProcessFailed" ELSE "Ok"
    /\ UNCHANGED <<s_in, s_pc, s_cmd, child, pipe, reader>>
    /\ UNCHANGED <<evars, nvars, qvars, cvars, fvars>>

\* child.wait().await fails (the status of the exited process cannot be
\* collected): the ? returns the io::Error as it is.
join_wait_error ==
    /\ join = "awaiting"
    /\ child.state = "exited"
    /\ join' = "IoError"
    /\ UNCHANGED <<s_in, s_pc, s_cmd, child, pipe, reader, reaped>>
    /\ UNCHANGED <<evars, nvars, qvars, cvars, fvars>>

NextStream ==
    \/ open_audio_stream_spawn
    \/ open_audio_stream_spawn_fail
    \/ child_write
    \/ child_finish
    \/ child_crash
    \/ stream_read
    \/ stream_read_eof
    \/ join_await
    \/ join_resolve
    \/ join_wait_error

SpecStream == InitStream /\ [][NextStream]_vars

Resolved == join \in {"Ok", "ExtractionProcessFailed", "IoError"}

join_await_after_eof ==
    /\ reader.eof
    /\ join_await

NextDrain ==
    \/ open_audio_stream_spawn
    \/ open_audio_stream_spawn_fail
    \/ child_write
    \/ child_finish
    \/ child_crash
    \/ stream_read
    \/ stream_read_eof
    \/ join_await_after_eof
    \/ join_resolve
    \/ join_wait_error

\* The process keeps writing while the pipe has room and exits once its
\* output is written; the consumer keeps reading, then awaits; the runtime
\* completes child.wait() of an exited process.
FairDrain ==
    /\ WF_vars(child_write)
    /\ WF_vars(child_finish)
    /\ WF_vars(stream_read)
    /\ WF_vars(stream_read_eof)
    /\ WF_vars(join_await_after_eof)
    /\ WF_vars(join_resolve \/ join_wait_error)

SpecStreamFair == InitStream /\ [][NextDrain]_vars /\ FairDrain

\* C14: the stream of the returned pair is read while the process runs and
\* before join_handle is awaited; a consumer that reads to end-of-stream and
\* then awaits join_handle always eventually has it resolved (draining the
\* pipe and waiting for the process do not deadlock); and the process is
\* waited on only while join_handle is being awaited.
C14_DrainThenAwaitResolves ==
    /\ [][reaped' # reaped => join = "awaiting"]_vars
    /\ (s_pc = "open") ~> Resolved

\* C14 witness: the signal resolved to success after the consumer had read
\* more bytes than the pipe holds (so it read while the process was running,
\* before awaiting) and then end-of-stream.
C14_Witness ==
    /\ join = "Ok"
    /\ reader.eof
    /\ reader.nread > PipeCap

\* ------------------------------------------------------ CodecType, Stream

CodecAudio == [variant |-> "Audio", name |-> ""]
CodecVideo == [variant |-> "Video", name |-> ""]
CodecSubtitle == [variant |-> "Subtitle", name |-> ""]
CodecOther(name) == [variant |-> "Other", name |-> name]

\* impl Deserialize for CodecType: any other string is kept as Other.
CodecType_deserialize(str) ==
    IF str = "audio" THEN CodecAudio
    ELSE IF str = "video" THEN CodecVideo
    ELSE IF str = "subtitle" THEN CodecSubtitle
    ELSE CodecOther(str)

\* A BTreeMap is a set of <<key, value>> pairs with one value for a key.
Map_get(map, key) ==
    IF \E kv \in map : kv[1] = key
    THEN Some((CHOOSE kv \in map : kv[1] = key)[2])
    ELSE None

Stream(index, codec_type, tags, disposition) ==
    [index |-> index, codec_type |-> codec_type, tags |-> tags,
     disposition |-> disposition]

\* crate::lang::Lang::iso639: the language of a two- or three-letter code, an
\* error for any other text.  A Lang is named by its two-letter code.
Lang_iso639(code) ==
    IF code \in {"en", "eng"} THEN Some("en")
    ELSE IF code \in {"fr", "fra", "fre"} THEN Some("fr")
    ELSE IF code \in {"de", "deu", "ger"} THEN Some("de")
    ELSE None

\* self.tags.as_ref().and_then(|tags| tags.get("language"))
\*     .and_then(|lang| Lang::iso639(lang).ok())
Stream_language(self) ==
    IF ~self.tags.some THEN None
    ELSE LET lang == Map_get(self.tags.v, "language")
         IN  IF ~lang.some THEN None ELSE Lang_iso639(lang.v)

\* --------------------------------------------------------------- Video::new

\* A stream record of the probe's JSON: a field that is missing or of the
\* wrong type is None.
RawStream(index, codec_type, tags, disposition) ==
    [index |-> index, codec_type |-> codec_type, tags |-> tags,
     disposition |-> disposition]

\* #[derive(Deserialize)] for Stream: index and codec_type are required, tags
\* and disposition are optional, other fields are skipped.
Stream_deserialize(raw) ==
    IF raw.index.some /\ raw.codec_type.some
    THEN Some(Stream(raw.index.v, CodecType_deserialize(raw.codec_type.v),
                     raw.tags, raw.disposition))
    ELSE None

\* The text on the probe's standard output: bytes that are UTF-8 or not, that
\* read as a JSON object or not, with a "streams" array or not.
ProbeOutput(utf8, json, has_streams, streams) ==
    [utf8 |-> utf8, json |-> json, has_streams |-> has_streams, streams |-> streams]

\* serde_json::from_str::<Metadata>: the object must hold "streams", an
\* array whose every record deserializes.
Metadata_deserialize(out) ==
    IF ~out.json \/ ~out.has_streams THEN None
    ELSE IF \E j \in DOMAIN out.streams : ~Stream_deserialize(out.streams[j]).some
    THEN None
    ELSE Some([streams |->
            [j \in DOMAIN out.streams |-> Stream_deserialize(out.streams[j]).v]])

\* The stream records a probe may print.
RawStreams ==
    {RawStream(Some(0), Some("audio"), Some({<<"language", "eng">>}), None),
     RawStream(Some(1), Some("video"), None, Some({<<"attached_pic", 1>>})),
     RawStream(Some(2), Some("data"), None, None),
     RawStream(None, Some("audio"), None, None),
     RawStream(Some(3), None, None, None)}

ProbeOutputs ==
    {ProbeOutput(utf8, FALSE, FALSE, <<>>) : utf8 \in BOOLEAN}
    \cup {ProbeOutput(utf8, TRUE, FALSE, <<>>) : utf8 \in BOOLEAN}
    \cup UNION {{ProbeOutput(utf8, TRUE, TRUE, raws) :
                    utf8 \in BOOLEAN, raws \in [1..n -> RawStreams]} : n \in 0..MaxStreams}

InitNew ==
    /\ n_in \in [is_file : BOOLEAN]
    /\ n_pc = "call"
    /\ probe = [invoked |-> FALSE, state |-> "none", status |-> NoStatus]
    /\ n_result = "none"
    /\ video = <<>>
    /\ IdleExtract /\ IdleStream /\ IdleQuery /\ IdleEncode /\ IdleFraction

\* if !path.is_file() { return Err(anyhow!("No such file ...")) }
new_not_a_file ==
    /\ n_pc = "call" /\ ~n_in.is_file
    /\ n_result' = "NotAFile"
    /\ n_pc' = "done"
    /\ UNCHANGED <<n_in, probe, video>>
    /\ UNCHANGED <<evars, svars, qvars, cvars, fvars>>

\* Command::new("ffprobe") ... .output(): the probe is spawned.
new_probe_spawn ==
    /\ n_pc = "call" /\ n_in.is_file
    /\ probe' = [invoked |-> TRUE, state |-> "running", status |-> NoStatus]
    /\ n_pc' = "probing"
    /\ UNCHANGED <<n_in, n_result, video>>
    /\ UNCHANGED <<evars, svars, qvars, cvars, fvars>>

\* .output() fails to spawn: cmd.with_context(mkerr)?
new_probe_spawn_fail ==
    /\ n_pc = "call" /\ n_in.is_file
    /\ probe' = [invoked |-> TRUE, state |-> "spawn_failed", status |-> NoStatus]
    /\ n_result' = "ProbeFailed"
    /\ n_pc' = "done"
    /\ UNCHANGED <<n_in, video>>
    /\ UNCHANGED <<evars, svars, qvars, cvars, fvars>>

\* The environment: the probe exits with some status, having printed some
\* output.
probe_exit ==
    /\ probe.state = "running"
    /\ \E st \in ExitStatuses, out \in ProbeOutputs :
        probe' = [invoked |-> TRUE, state |-> "exited", status |-> st, stdout |-> out]
    /\ UNCHANGED <<n_in, n_pc, n_result, video>>
    /\ UNCHANGED <<evars, svars, qvars, cvars, fvars>>

\* .output().await resolves (the exit status in it is not read);
\* from_utf8(&output.stdout).with_context(mkerr)?;
\* serde_json::from_str(stdout).with_context(mkerr)?; Ok(Video { .. })
new_return ==
    /\ n_pc = "probing" /\ probe.state = "exited"
    /\ LET metadata == Metadata_deserialize(probe.stdout)
       IN  IF ~probe.stdout.utf8 \/ ~metadata.some
           THEN n_result' = "ProbeFailed" /\ video' = <<>>
           ELSE n_result' = "Ok" /\ video' = metadata.v.streams
    /\ n_pc' = "done"
    /\ UNCHANGED <<n_in, probe>>
    /\ UNCHANGED <<evars, svars, qvars, cvars, fvars>>

NextNew ==
    \/ new_not_a_file
    \/ new_probe_spawn
    \/ new_probe_spawn_fail
    \/ probe_exit
    \/ new_return

SpecNew == InitNew /\ [][NextNew]_vars

\* The probe's JSON matches the schema: an object with a "streams" array of
\* records that each hold an index and a codec_type.
SchemaOk(out) ==
    /\ out.json /\ out.has_streams
    /\ \A j \in DOMAIN out.streams :
        out.streams[j].index.some /\ out.streams[j].codec_type.some

\* C9: Video::new fails with NotAFile, without invoking the probe, when the
\* path is no regular file; else it fails with ProbeFailed whenever the probe
\* exits non-zero, prints bytes that are not UTF-8 or JSON off the schema; in
\* every other case it returns a Video with the complete stream list.
C9_NewFailsOrReturnsAll ==
    n_pc = "done" =>
        /\ ~n_in.is_file => n_result = "NotAFile" /\ ~probe.invoked
        /\ n_in.is_file => n_result # "NotAFile"
        /\ probe.state = "spawn_failed" => n_result = "ProbeFailed"
        /\ probe.state = "exited" =>
            IF probe.status # 0 \/ ~probe.stdout.utf8 \/ ~SchemaOk(probe.stdout)
            THEN n_result = "ProbeFailed"
            ELSE /\ n_result = "Ok"
                 /\ Len(video) = Len(probe.stdout.streams)
                 /\ \A j \in DOMAIN video :
                        video[j].index = probe.stdout.streams[j].index.v

\* ------------------------------------------------- the queries on a Video

\* <[T]>::iter().position(pred): the zero-based place of the first element
\* that satisfies pred; holds[j] is pred of element j.
position(holds) ==
    IF \E j \in DOMAIN holds : holds[j]
    THEN Some((CHOOSE j \in DOMAIN holds :
                    holds[j] /\ \A k \in 1..(j - 1) : ~holds[k]) - 1)
    ELSE None

\* StreamId(usize)
StreamId(n) == n

\* The codec type is not looked at.
audio_track_for_any_codec(streams, lang) ==
    LET found == position([j \in DOMAIN streams |->
                    Stream_language(streams[j]) = Some(lang)])
    IN  IF found.some THEN Some(StreamId(found.v)) ELSE None

\* self.streams().iter().position(|s| s.codec_type == CodecType::Audio
\*     && s.language() == Some(lang)).map(StreamId)
audio_track_for(streams, lang) ==
    LET found == position([j \in DOMAIN streams |->
                    /\ streams[j].codec_type = CodecAudio
                    /\ Stream_language(streams[j]) = Some(lang)])
    IN  IF found.some THEN Some(StreamId(found.v)) ELSE None

\* The tags a stream may carry: none at all, tags with no language, a
\* language that resolves, one that does not.
TagChoices ==
    {None, Some({<<"title", "x">>}), Some({<<"language", "eng">>}),
     Some({<<"language", "fra">>, <<"title", "x">>}), Some({<<"language", "zzz">>})}

\* The streams of a Video, but for their index: every Audio stream, and
\* streams of the other codec types with a French tag or no tags.
StreamShapes ==
    {[codec_type |-> CodecAudio, tags |-> t] : t \in TagChoices}
    \cup {[codec_type |-> c, tags |-> t] :
            c \in {CodecVideo, CodecSubtitle, CodecOther("data")},
            t \in {None, Some({<<"language", "fra">>, <<"title", "x">>})}}

\* The index of the first stream of a list (ffprobe counts from 0; the JSON
\* may hold any number).
FirstIndexes == {0, 1}

\* The list of n streams of the given shapes, indexed from first.
StreamList(n, shapes, first) ==
    [j \in 1..n |-> Stream(first + j - 1, shapes[j].codec_type, shapes[j].tags, None)]

\* The languages asked for: English, French, German.
Langs == {"en", "fr", "de"}

InitQuery ==
    /\ \E n \in 0..MaxStreams :
        \E shapes \in [1..n -> StreamShapes], first \in FirstIndexes :
            q_streams = StreamList(n, shapes, first)
    /\ q_lang \in Langs
    /\ q_pc = "ready"
    /\ q_track = None
    /\ q_image = None
    /\ IdleExtract /\ IdleStream /\ IdleNew /\ IdleEncode /\ IdleFraction

query_audio_track_for ==
    /\ q_pc = "ready"
    /\ q_track' = audio_track_for(q_streams, q_lang)
    /\ q_pc' = "done"
    /\ UNCHANGED <<q_streams, q_lang, q_image>>
    /\ UNCHANGED <<evars, svars, nvars, cvars, fvars>>

NextQuery == query_audio_track_for

SpecQuery == InitQuery /\ [][NextQuery]_vars

\* The language tag of a stream, as the probe printed it ("" when absent).
LanguageTag(st) ==
    IF st.tags.some /\ \E kv \in st.tags.v : kv[1] = "language"
    THEN (CHOOSE kv \in st.tags.v : kv[1] = "language")[2]
    ELSE ""

\* The codes of a language.
CodesOf(lang) ==
    IF lang = "en" THEN {"en", "eng"}
    ELSE IF lang = "fr" THEN {"fr", "fra", "fre"}
    ELSE {"de", "deu", "ger"}

\* Stream st is an Audio stream tagged with a code of lang.
Matches(st, lang) ==
    st.codec_type.variant = "Audio" /\ LanguageTag(st) \in CodesOf(lang)

\* C10: audio_track_for(lang) returns the lowest list position (from 0)
\* whose stream is Audio with a language that resolves to lang, and none
\* exactly when there is no such stream; for [{audio, eng}, {audio, fra}]
\* French gives 1 and German none.
C10_AudioTrackIsFirstMatch ==
    q_pc = "done" =>
        LET hits == {j \in DOMAIN q_streams : Matches(q_streams[j], q_lang)}
        IN  /\ hits = {} <=> q_track = None
            /\ hits # {} =>
                /\ q_track.some
                /\ (q_track.v + 1) \in hits
                /\ \A j \in hits : q_track.v + 1 <= j
            /\ (/\ Len(q_streams) = 2
                /\ \A j \in 1..2 : q_streams[j].codec_type = CodecAudio
                /\ LanguageTag(q_streams[1]) = "eng"
                /\ LanguageTag(q_streams[2]) = "fra")
                => /\ q_lang = "fr" => q_track = Some(1)
                   /\ q_lang = "de" => q_track = None

\* C10 witness: the answer is the third stream, after a Video stream with
\* the language and an Audio stream without it, in a list whose index
\* fields differ from the positions.
C10_Witness ==
    /\ q_pc = "done"
    /\ q_track = Some(2)
    /\ Len(q_streams) = 3
    /\ q_streams[1].codec_type = CodecVideo /\ LanguageTag(q_streams[1]) = "fra"
    /\ q_streams[2].codec_type = CodecAudio /\ LanguageTag(q_streams[2]) = "zzz"
    /\ q_streams[3].index = 3
    /\ q_lang = "fr"

\* ------------------------------------------------ Video::image_source_type

\* self.disposition.as_ref().and_then(|d| d.get("attached_pic"))
\*     .map(|&v| v == 1).unwrap_or(false)
Stream_is_attached_pic(self) ==
    IF ~self.disposition.some THEN FALSE
    ELSE LET v == Map_get(self.disposition.v, "attached_pic")
         IN  IF v.some THEN v.v = 1 ELSE FALSE

\* The last Video stream in place of the first.
primary_video_stream_last(streams) ==
    LET at == position([j \in DOMAIN streams |->
                    streams[Len(streams) + 1 - j].codec_type = CodecVideo])
    IN  IF at.some THEN Some(streams[Len(streams) - at.v]) ELSE None

\* self.streams().iter().find(|s| s.codec_type == CodecType::Video)
primary_video_stream(streams) ==
    LET at == position([j \in DOMAIN streams |-> streams[j].codec_type = CodecVideo])
    IN  IF at.some THEN Some(streams[at.v + 1]) ELSE None

\* match primary { Some(s) if s.is_attached_pic() => Some(AttachedPic),
\*                 Some(_) => Some(Video), None => None }
image_source_type(streams) ==
    LET primary == primary_video_stream(streams)
    IN  IF primary.some /\ Stream_is_attached_pic(primary.v) THEN Some("AttachedPic")
        ELSE IF primary.some THEN Some("Video")
        ELSE None

\* The dispositions a stream may carry: none, an empty one, one without the
\* key, and the key with the values 0, 1 and 2.
DispositionChoices ==
    {None, Some({}), Some({<<"default", 1>>}),
     Some({<<"attached_pic", 0>>, <<"default", 1>>}),
     Some({<<"attached_pic", 1>>}), Some({<<"attached_pic", 2>>})}

\* Every Video stream, Audio streams flagged or not, a Subtitle stream.
ImageShapes ==
    {[codec_type |-> CodecVideo, disposition |-> d] : d \in DispositionChoices}
    \cup {[codec_type |-> CodecAudio, disposition |-> d] :
            d \in {None, Some({<<"attached_pic", 1>>})}}
    \cup {[codec_type |-> CodecSubtitle, disposition |-> None]}

ImageStreamList(n, shapes) ==
    [j \in 1..n |-> Stream(j - 1, shapes[j].codec_type, None, shapes[j].disposition)]

InitImage ==
    /\ \E n \in 0..MaxStreams :
        \E shapes \in [1..n -> ImageShapes] : q_streams = ImageStreamList(n, shapes)
    /\ q_lang = ""
    /\ q_pc = "ready"
    /\ q_track = None
    /\ q_image = None
    /\ IdleExtract /\ IdleStream /\ IdleNew /\ IdleEncode /\ IdleFraction

query_image_source_type ==
    /\ q_pc = "ready"
    /\ q_image' = image_source_type(q_streams)
    /\ q_pc' = "done"
    /\ UNCHANGED <<q_streams, q_lang, q_track>>
    /\ UNCHANGED <<evars, svars, nvars, cvars, fvars>>

NextImage == query_image_source_type

SpecImage == InitImage /\ [][NextImage]_vars

\* The places of the Video streams of the list.
VideoPlaces == {j \in DOMAIN q_streams : q_streams[j].codec_type.variant = "Video"}

\* Stream st has a disposition holding "attached_pic" with the value 1.
Flagged(st) == st.disposition.some /\ <<"attached_pic", 1>> \in st.disposition.v

\* C11: image_source_type is none exactly when no stream is a Video stream;
\* else it is AttachedPic exactly when the first Video stream has a
\* disposition with "attached_pic" equal to 1, and Video in every other case;
\* later Video streams do not count.
C11_ImageSourceIsFirstVideo ==
    q_pc = "done" =>
        /\ q_image = None <=> VideoPlaces = {}
        /\ VideoPlaces # {} =>
            LET first == CHOOSE j \in VideoPlaces : \A k \in VideoPlaces : j <= k
            IN  /\ q_image = Some("AttachedPic") <=> Flagged(q_streams[first])
                /\ q_image = Some("Video") <=> ~Flagged(q_streams[first])

\* C11 witness: the answer is Video for a first Video stream whose
\* "attached_pic" is 2, though a flagged Audio stream comes before it and a
\* flagged Video stream after it.
C11_Witness ==
    /\ q_pc = "done"
    /\ q_image = Some("Video")
    /\ Len(q_streams) = 3
    /\ q_streams[1].codec_type = CodecAudio /\ Flagged(q_streams[1])
    /\ q_streams[2].codec_type = CodecVideo
    /\ q_streams[2].disposition.some
    /\ <<"attached_pic", 2>> \in q_streams[2].disposition.v
    /\ q_streams[3].codec_type = CodecVideo /\ Flagged(q_streams[3])

\* ------------------------------------------------ the command of one pass

\* Most items of a batch pass whose command is built.
MaxItems == 2

Fields == {"genre", "artist", "album", "track_number", "track_name", "lyrics"}

\* The Id3Metadata whose present fields are those of the set present.
MetadataOf(present) ==
    [genre        |-> IF "genre" \in present THEN Some("g") ELSE None,
     artist       |-> IF "artist" \in present THEN Some("r") ELSE None,
     album        |-> IF "album" \in present THEN Some("a") ELSE None,
     track_number |-> IF "track_number" \in present THEN Some(<<1, 2>>) ELSE None,
     track_name   |-> IF "track_name" \in present THEN Some("n") ELSE None,
     lyrics       |-> IF "lyrics" \in present THEN Some("l") ELSE None]

ItemKinds == {"Image", "Mapped", "Plain"}

\* The items of a pass: item j is an Image, an Audio clip of stream j
\* ("Mapped") or an Audio clip of no stream ("Plain"); odd items carry the
\* fields of present, even items the other fields.
PassItems(kinds, order, present) ==
    WithPaths([j \in 1..Len(kinds) |->
        LET t == TimeAt(order, Len(kinds), j)
        IN  IF kinds[j] = "Image" THEN Image(t)
            ELSE Audio(IF kinds[j] = "Mapped" THEN Some(j) ELSE None,
                       [begin |-> t, end |-> t + 2],
                       MetadataOf(IF j % 2 = 1 THEN present ELSE Fields \ present))])

InitEncode ==
    /\ \E order \in TimeOrders, present \in SUBSET Fields :
        \/ /\ c_mode = "one"
           /\ \E kind \in ItemKinds : c_items = PassItems(<<kind>>, order, present)
        \/ /\ c_mode = "batch"
           /\ \E n \in 1..MaxItems :
                \E kinds \in [1..n -> ItemKinds \ {"Image"}] :
                    c_items = PassItems(kinds, order, present)
    /\ c_pc = "ready"
    /\ c_cmd = <<>>
    /\ IdleExtract /\ IdleStream /\ IdleNew /\ IdleQuery /\ IdleFraction

\* extract_one up to the point where the command is run.
encode_one ==
    /\ c_pc = "ready" /\ c_mode = "one"
    /\ c_cmd' = extract_one_cmd(c_items[1]).args
    /\ c_pc' = "done"
    /\ UNCHANGED <<c_mode, c_items>>
    /\ UNCHANGED <<evars, svars, nvars, qvars, fvars>>

\* extract_batch up to the point where the command is run.
encode_batch ==
    /\ c_pc = "ready" /\ c_mode = "batch"
    /\ c_items # <<>> /\ batch_assert(c_items)
    /\ c_cmd' = extract_batch_cmd(c_items).args
    /\ c_pc' = "done"
    /\ UNCHANGED <<c_mode, c_items>>
    /\ UNCHANGED <<evars, svars, nvars, qvars, fvars>>

NextEncode == encode_one \/ encode_batch

SpecEncode == InitEncode /\ [][NextEncode]_vars

\* The places of the destination paths in the command, ascending.
DestPlaces == {k \in 5..Len(c_cmd) : c_cmd[k].tag = "path"}

\* The place of the j-th destination path.
DestPlace(j) ==
    CHOOSE k \in DestPlaces : Cardinality({h \in DestPlaces : h <= k}) = j

\* The encoded fragment of item j: what lies between the destination before
\* it (or the input path) and its own destination.
Fragment(j) ==
    SubSeq(c_cmd, (IF j = 1 THEN 4 ELSE DestPlace(j - 1)) + 1, DestPlace(j) - 1)

\* The fields of a metadata that are present.
Present(md) ==
    {f \in Fields :
        CASE f = "genre" -> md.genre.some
          [] f = "artist" -> md.artist.some
          [] f = "album" -> md.album.some
          [] f = "track_number" -> md.track_number.some
          [] f = "track_name" -> md.track_name.some
          [] f = "lyrics" -> md.lyrics.some}

\* Token tok is the tag of field f.
TagOf(tok, f) ==
    CASE f = "genre" -> tok.tag = "fmt" /\ tok.s = "genre="
      [] f = "artist" -> tok.tag = "fmt" /\ tok.s = "artist="
      [] f = "album" -> tok.tag = "fmt" /\ tok.s = "album="
      [] f = "track_number" -> tok.tag = "track"
      [] f = "track_name" -> tok.tag = "fmt" /\ tok.s = "title="
      [] f = "lyrics" -> tok.tag = "fmt" /\ tok.s = "lyrics="

\* The places of fragment fr where the literal s is directly followed by a
\* token.
After(fr, s) == {k \in 1..(Len(fr) - 1) : fr[k] = Lit(s)}

AudioFragmentOk(fr, spec, time_base) ==
    LET present == Present(spec.metadata)
        maps == After(fr, "-map")
        tags == After(fr, "-metadata")
        head == IF spec.stream.some THEN 2 ELSE 0
    IN  /\ Len(fr) = head + 2 * Cardinality(present) + 4
        /\ (maps # {}) <=> spec.stream.some
        /\ spec.stream.some => maps = {1} /\ fr[2] = MapArg(spec.stream.v)
        /\ \A f \in Fields :
            Cardinality({k \in tags : TagOf(fr[k + 1], f)})
                = IF f \in present THEN 1 ELSE 0
        /\ \A k \in tags : head < k /\ k < Len(fr) - 3
        /\ SubSeq(fr, Len(fr) - 3, Len(fr))
            = <<Lit("-ss"), Num(spec.period.begin - time_base),
                Lit("-t"), Num(spec.period.end - spec.period.begin)>>

ImageFragmentOk(fr, spec, time_base) ==
    /\ \E k \in After(fr, "-ss") : fr[k + 1] = Num(spec.time - time_base)
    /\ \E k \in After(fr, "-vframes") : fr[k + 1] = Lit("1")
    /\ \E k \in After(fr, "-filter_complex") : fr[k + 1].tag = "scale"
    /\ \E k \in After(fr, "-f") : fr[k + 1] = Lit("image2")
    /\ After(fr, "-map") = {} /\ After(fr, "-metadata") = {}

\* C12: the command of a pass is the shared seek to the time base, the input
\* path, then per item in pass order its fragment directly followed by its
\* destination: one destination per item, in item order.  An Audio fragment
\* holds a stream selector iff a stream was asked for, one tag per present
\* metadata field and none for an absent one, then the relative seek and the
\* duration; an Image fragment holds the relative seek, the one-frame limit,
\* the scale filter and the still-image format.
C12_CommandForm ==
    c_pc = "done" =>
        LET time_base == earliest_time(c_items[1].spec)
        IN  /\ SubSeq(c_cmd, 1, 4)
                = <<Lit("-ss"), Num(time_base), Lit("-i"), PathArg(VideoPath)>>
            /\ Cardinality(DestPlaces) = Len(c_items)
            /\ c_cmd[Len(c_cmd)].tag = "path"
            /\ \A j \in 1..Len(c_items) :
                /\ c_cmd[DestPlace(j)] = PathArg(c_items[j].path)
                /\ IF c_items[j].spec.kind = "Audio"
                   THEN AudioFragmentOk(Fragment(j), c_items[j].spec, time_base)
                   ELSE ImageFragmentOk(Fragment(j), c_items[j].spec, time_base)

\* C12 witness: a batch command of two items built, the first with a stream
\* and some but not all fields, the second with no stream, seeking back.
C12_Witness ==
    /\ c_pc = "done" /\ c_mode = "batch" /\ Len(c_items) = 2
    /\ c_items[1].spec.stream.some /\ ~c_items[2].spec.stream.some
    /\ Present(c_items[1].spec.metadata) = {"artist", "track_number", "lyrics"}
    /\ c_items[2].spec.period.begin < c_items[1].spec.period.begin
    /\ Len(c_cmd) = 4 + 13 + 11

\* ---------------------------------------------------- Fraction::deserialize

\* A text is a sequence of characters, each a one-character string; "arabic3"
\* stands for U+0663, a decimal digit that is not an ASCII digit.
DigitChars == <<"0", "1", "2", "3", "4", "5", "6", "7", "8", "9">>

IsAsciiDigit(c) == \E k \in DOMAIN DigitChars : DigitChars[k] = c

DigitVal(c) == (CHOOSE k \in DOMAIN DigitChars : DigitChars[k] = c) - 1

\* The class \d of the regex: every Unicode decimal digit.
IsRegexDigit(c) == IsAsciiDigit(c) \/ c = "arabic3"

\* A u32 as two 16-bit limbs: the value is hi * 65536 + lo.
Limb == 65536

U32(hi, lo) == [hi |-> hi, lo |-> lo]

U32_of(n) == U32(n \div Limb, n % Limb)

\* acc.checked_mul(10)?.checked_add(d)?: none on overflow of 32 bits.
U32_push_digit(acc, d) ==
    LET lo == acc.lo * 10 + d
        hi == acc.hi * 10 + lo \div Limb
    IN  IF hi >= Limb THEN None ELSE Some(U32(hi, lo % Limb))

RECURSIVE U32_from_str_at(_, _, _)
U32_from_str_at(str, k, acc) ==
    IF k > Len(str) THEN Some(acc)
    ELSE IF ~IsAsciiDigit(str[k]) THEN None
    ELSE LET next == U32_push_digit(acc, DigitVal(str[k]))
         IN  IF next.some THEN U32_from_str_at(str, k + 1, next.v) ELSE None

\* <u32 as FromStr>::from_str on a text without a sign: an error (none) for the
\* empty text, for a character that is no ASCII digit and for a value above
\* u32::MAX.
U32_from_str(str) ==
    IF str = <<>> THEN None ELSE U32_from_str_at(str, 1, U32(0, 0))

U32_lt(a, b) == a.hi < b.hi \/ (a.hi = b.hi /\ a.lo < b.lo)

\* a - b for a >= b.
U32_sub(a, b) ==
    IF a.lo >= b.lo THEN U32(a.hi - b.hi, a.lo - b.lo)
    ELSE U32(a.hi - b.hi - 1, a.lo + Limb - b.lo)

\* q * b for a q below 2^9, its high limb not cut to 16 bits.
U32_times(q, b) == U32(q * b.hi + (q * b.lo) \div Limb, (q * b.lo) % Limb)

\* Quotient and remainder of a by a divisor n, 0 < n < 2^23: long division
\* over the four bytes of a.
U32_divmod_short(a, n) ==
    LET b3 == a.hi \div 256
        b2 == a.hi % 256
        b1 == a.lo \div 256
        b0 == a.lo % 256
        d2 == (b3 % n) * 256 + b2
        d1 == (d2 % n) * 256 + b1
        d0 == (d1 % n) * 256 + b0
    IN  [q |-> U32((b3 \div n) * 256 + (d2 \div n), (d1 \div n) * 256 + (d0 \div n)),
         r |-> U32((d0 % n) \div Limb, (d0 % n) % Limb)]

\* Quotient and remainder of a by b, b not zero.  A divisor of 2^23 or more
\* has a quotient below 2^9.
U32_divmod(a, b) ==
    IF b.hi < 128 THEN U32_divmod_short(a, b.hi * Limb + b.lo)
    ELSE LET q == CHOOSE q \in 0..511 :
                    /\ ~U32_lt(a, U32_times(q, b))
                    /\ U32_lt(a, U32_times(q + 1, b))
         IN  [q |-> U32(0, q), r |-> U32_sub(a, U32_times(q, b))]

RECURSIVE U32_gcd(_, _)
\* The greatest common divisor (Euclid).
U32_gcd(a, b) ==
    IF b = U32(0, 0) THEN a ELSE U32_gcd(b, U32_divmod(a, b).r)

\* Ratio::new(numer, denom) for denom # 0: the ratio in lowest terms.
Ratio_new(numer, denom) ==
    LET g == U32_gcd(numer, denom)
    IN  [numer |-> U32_divmod(numer, g).q, denom |-> U32_divmod(denom, g).q]

\* The outcomes of a deserialization: a value, an error returned, a panic.
Value(ratio) == [kind |-> "value", ratio |-> ratio]
Failure(msg) == [kind |-> "error", msg |-> msg]
Panic == [kind |-> "panic"]

\* re.captures(&s) for ^(\d+)/(\d+)$: the two groups, or none.  \d never
\* matches "/", so a match has exactly one "/", with digits on both sides.
Regex_captures(str) ==
    LET slashes == {k \in DOMAIN str : str[k] = "/"}
    IN  IF Cardinality(slashes) # 1 THEN None
        ELSE LET k == CHOOSE k \in slashes : TRUE
                 g1 == SubSeq(str, 1, k - 1)
                 g2 == SubSeq(str, k + 1, Len(str))
             IN  IF /\ g1 # <<>> /\ g2 # <<>>
                    /\ \A j \in DOMAIN g1 : IsRegexDigit(g1[j])
                    /\ \A j \in DOMAIN g2 : IsRegexDigit(g2[j])
                 THEN Some(<<g1, g2>>)
                 ELSE None

\* Fraction::deserialize_parts: Err for a text the regex does not match;
\* from_str(..).unwrap() panics where from_str is an error.
Fraction_deserialize_parts(str) ==
    LET cap == Regex_captures(str)
    IN  IF ~cap.some THEN Failure("Expected fraction")
        ELSE LET num == U32_from_str(cap.v[1])
                 denom == U32_from_str(cap.v[2])
             IN  IF ~num.some \/ ~denom.some THEN Panic
                 ELSE [kind |-> "parts", num |-> num.v, denom |-> denom.v]

\* <Fraction as Deserialize>::deserialize
Fraction_deserialize(str) ==
    LET parts == Fraction_deserialize_parts(str)
    IN  IF parts.kind # "parts" THEN parts
        ELSE IF parts.denom = U32(0, 0)
        THEN Failure("Found fraction with a denominator of 0")
        ELSE Value(Ratio_new(parts.num, parts.denom))

\* Digit strings: small values, leading zeros, zero, values in lowest terms
\* and not, u32::MAX, the first value above it, a longer one, a digit that is
\* not ASCII.
DigitStrings ==
    {<<"0">>, <<"0", "0">>, <<"3">>, <<"4">>, <<"5">>, <<"6">>, <<"0", "0", "8">>,
     <<"6", "5", "5", "3", "6">>,
     <<"4", "2", "9", "4", "9", "6", "7", "2", "9", "5">>,
     <<"4", "2", "9", "4", "9", "6", "7", "2", "9", "6">>,
     <<"9", "9", "9", "9", "9", "9", "9", "9", "9", "9", "9">>,
     <<"arabic3">>}

\* Texts that are no fraction.
OtherTexts ==
    {<<>>, <<"a", "b", "c">>, <<"/">>, <<"3", "/">>, <<"/", "4">>, <<"3", "4">>,
     <<"3", "/", "4", "/", "5">>, <<"-", "3", "/", "4">>, <<"3", "/", "4", "\n">>,
     <<"3", " ", "/", "4">>, <<"3", "/", "a">>, <<"3", ".", "5", "/", "4">>}

InitFraction ==
    /\ \/ \E num \in DigitStrings, denom \in DigitStrings :
            f_text = num \o <<"/">> \o denom
       \/ f_text \in OtherTexts
    /\ f_pc = "ready"
    /\ f_out = [kind |-> "none"]
    /\ IdleExtract /\ IdleStream /\ IdleNew /\ IdleQuery /\ IdleEncode

fraction_deserialize ==
    /\ f_pc = "ready"
    /\ f_out' = Fraction_deserialize(f_text)
    /\ f_pc' = "done"
    /\ UNCHANGED f_text
    /\ UNCHANGED <<evars, svars, nvars, qvars, cvars>>

NextFraction == fraction_deserialize

SpecFraction == InitFraction /\ [][NextFraction]_vars

\* The place of the only "/" of a text that has one, else 0.
SlashAt(str) ==
    IF Cardinality({k \in DOMAIN str : str[k] = "/"}) = 1
    THEN CHOOSE k \in DOMAIN str : str[k] = "/" ELSE 0

\* The text is digits "/" digits, the digits ASCII.
IsFractionText(str) ==
    /\ 1 < SlashAt(str) /\ SlashAt(str) < Len(str)
    /\ \A k \in DOMAIN str : k # SlashAt(str) => IsAsciiDigit(str[k])

\* The denominator of a fraction text is all zeros.
ZeroDenominator(str) == \A k \in (SlashAt(str) + 1)..Len(str) : str[k] = "0"

\* C13: parsing a Fraction always ends in a value or a parse failure and
\* never aborts: digits/digits with a non-zero denominator gives the value
\* ("3/4" gives 3/4), a zero denominator fails ("5/0"), any other text fails
\* ("abc"); this for every digit string, those above u32::MAX included.
C13_FractionNeverAborts ==
    f_pc = "done" =>
        /\ f_out.kind \in {"value", "error"}
        /\ f_out.kind = "value"
            <=> IsFractionText(f_text) /\ ~ZeroDenominator(f_text)
        /\ f_text = <<"3", "/", "4">>
            => f_out = Value([numer |-> U32_of(3), denom |-> U32_of(4)])

====
